---- MODULE Spec2Model ----
(***************************************************************************)
(* OSSLR LicenseChecker: the copyright extraction batch                    *)
(* (extractCopyrightForAllPackages / checkExternalReferences /            *)
(* downloadLicense / parseCopyright), the reconciliation of local data     *)
(* with the generated package list (combine) and the exports.              *)
(*                                                                         *)
(* A text (license, readme, copyright notice) is a sequence of tokens: a   *)
(* token is one character of the text that matters to the regular          *)
(* expressions of CopyrightParser ("(", ")", "<", ">", " ", "c", ...) or a  *)
(* run of characters that none of them tells apart (a word, a number).     *)
(* The empty string '' is the empty sequence.                              *)
(*                                                                         *)
(* A reference to a PackageInfo object of localData is its index in        *)
(* localData; a reference to one of packageInfos its index there.          *)
(*                                                                         *)
(* The model follows the later revision of LicenseChecker, in which every  *)
(* record has its own checkExternalReferences task; combine is literally   *)
(* the same in the earlier revision. PackageInfo, the Downloader and the   *)
(* caller that orders the steps are not part of the sources at hand: they  *)
(* are modelled after the specification (sections 2, 4.2 and 6).           *)
(*                                                                         *)
(* The specifications share the variables: Spec is a whole run, from init  *)
(* to exportPDF; SpecFair the run up to the return of                      *)
(* extractCopyrightForAllPackages with no step put off for ever;           *)
(* SpecFrame a whole run on batches with versions in and out of range;     *)
(* SpecCombine starts where combine is called, SpecRerun lets combine be   *)
(* called a second time; SpecParser is CopyrightParser on its own, given a *)
(* text; SpecBackoff is downloadLicense on its own, given a rate limit     *)
(* answer; SpecExporter is CycloneDXExporter on its own, given a BOM.      *)
(***************************************************************************)
EXTENDS Integers, Sequences, FiniteSets, TLC

\* ---------------------------------------------------------------- bounds
\* Largest number of generated / local records in the reconciliation runs.
MaxGenerated == 2
MaxLocal == 2
\* Largest number of records / of external references of a record in the
\* extraction batch, and the requests the rate limit grants per window.
MaxPackages == 2
MaxRefs == 2
QuotaLimit == 1
\* Longest texts given to CopyrightParser on its own: texts with spans in
\* brackets, and texts with the words of a copyright notice.
MaxTextLen == 5
MaxNoticeLen == 4

\* Latest reset of the rate limit given to downloadLicense on its own, in
\* seconds; the clock readings go up to a second beyond it.
MaxReset == 4

\* Most components of a BOM given to CycloneDXExporter on its own.
MaxComponents == 3

VARIABLES
    packageInfos,     \* LicenseChecker.packageInfos: the generated records
    localData,        \* LicenseChecker.localData: the user's records
    toBeAppended,     \* LicenseChecker.toBeAppended: references into localData
    noCopyrightList,  \* LicenseChecker.noCopyrightList: references into packageInfos
    warnings,         \* what printWarning / Logger.addToLog received from combine
    overwritten,      \* history: the pairs <<i, j>> combine copied local[i] into generated[j]
    phase,            \* how far the run has come
    pc,               \* per record: where its checkExternalReferences task stands
    refIdx,           \* per record: the place of url in externalReferences
    observed,         \* per record: remaining, as the pending downloadLicense call saw it
    waited,           \* per record: the pending downloadLicense call has slept
    queried,          \* per record: calls of getRemainingRateObj so far
    requested,        \* per record: the urls passed to downloadLicenseAndREADME so far
    readmeOnly,       \* per record, history: a download gave '' as license and a
                      \* readme that holds a copyright notice
    progress,         \* the value of progBar
    remaining,        \* the downloader's rate limit: requests left
    bom,              \* what the run is given: bomFormat, bomPath and whether the
                      \* file at bomPath can be read and parsed
    parserInput,      \* CopyrightParser on its own: the text it is given
    parserOutput,     \* CopyrightParser on its own: what its last call returned
    reset,            \* downloadLicense on its own: reset of the rate limit answer,
                      \* in seconds since the epoch
    now,              \* downloadLicense on its own: Date.now(), in milliseconds
    waitTime,         \* downloadLicense on its own: the delay given to setTimeout
    bomData,          \* CycloneDXExporter on its own: the components of the BOM
                      \* as parsed from the file
    originalBom       \* CycloneDXExporter on its own: the components of the object
                      \* insertCopyrightIntoBom works on

recordVars == <<packageInfos, localData, toBeAppended, noCopyrightList, warnings,
                overwritten>>
taskVars == <<pc, refIdx, observed, waited, queried, requested, readmeOnly,
              progress, remaining>>
parserVars == <<parserInput, parserOutput>>
timerVars == <<reset, now, waitTime>>
exporterVars == <<bomData, originalBom>>
vars == <<recordVars, taskVars, phase, bom, parserVars, timerVars, exporterVars>>

\* The value of observed outside a call of downloadLicense.
NoValue == -1

\* ------------------------------------------------------------ PackageInfo
PackageInfo(group, name, version, licenses, copyright, externalReferences) ==
    [group |-> group, name |-> name, version |-> version, licenses |-> licenses,
     copyright |-> copyright, externalReferences |-> externalReferences]

\* The versions of the model and what semver makes of them.
SemVer(v) ==
    CASE v = "1.0.0" -> <<1, 0, 0>>
      [] v = "1.2.0" -> <<1, 2, 0>>
      [] v = "2.0.0" -> <<2, 0, 0>>
      [] OTHER -> <<>>

Range(r) ==
    IF r = "^1.0.0" THEN [op |-> "^", base |-> <<1, 0, 0>>]
    ELSE IF SemVer(r) # <<>> THEN [op |-> "=", base |-> SemVer(r)]
    ELSE [op |-> "invalid", base |-> <<>>]

VersionGE(a, b) ==
    \/ a[1] > b[1]
    \/ a[1] = b[1] /\ a[2] > b[2]
    \/ a[1] = b[1] /\ a[2] = b[2] /\ a[3] >= b[3]

Satisfies(v, r) ==
    LET rg == Range(r)
        ver == SemVer(v)
    IN  IF rg.op = "invalid" THEN v = r
        ELSE /\ ver # <<>>
             /\ IF rg.op = "=" THEN ver = rg.base
                ELSE ver[1] = rg.base[1] /\ VersionGE(ver, rg.base)

\* this.samePackage(other), this.isVersionInRangeOf(other), this.toString()
samePackage(this, other) == this.group = other.group /\ this.name = other.name

isVersionInRangeOf(this, other) == Satisfies(this.version, other.version)

toString(this) == this.group \o "/" \o this.name \o "@" \o this.version

\* --------------------------------------------------------- CopyrightParser
\* The token at place p of text t; "" beyond its ends.
Tok(t, p) == IF p \in 1..Len(t) THEN t[p] ELSE ""

\* toLowerCase / the flag 'i', on the tokens of the model.
Lower(tok) ==
    CASE tok = "C" -> "c"
      [] tok \in {"Copyright", "COPYRIGHT"} -> "copyright"
      [] OTHER -> tok

\* [0-9]+ : a run of digits.
DigitTokens == {"2019", "2020", "1"}
IsDigits(tok) == tok \in DigitTokens

\* \s
IsWhitespace(tok) == tok \in {" ", "\n", "\t"}

\* copyright, whatever its case
IsCopyrightWord(tok) == Lower(tok) = "copyright"

\* (©|\(c\)) at place p: the lengths it can take there.
SymbolAt(t, p) ==
    { n \in {1, 3} :
        \/ n = 1 /\ Tok(t, p) = "©"
        \/ n = 3 /\ Tok(t, p) = "(" /\ Lower(Tok(t, p + 1)) = "c" /\ Tok(t, p + 2) = ")" }

\* (©|\(c\))? and " ?" at place p
OptSymbolAt(t, p) == {0} \cup SymbolAt(t, p)
OptSpaceAt(t, p) == IF Tok(t, p) = " " THEN {0, 1} ELSE {0}

\* regExps[0]: (©|\(c\))? ?copyright (©|\(c\))? ?[0-9]+.*
Rule1At(t, p) ==
    \E a \in OptSymbolAt(t, p) : \E s \in OptSpaceAt(t, p + a) :
        LET k == p + a + s
        IN  /\ IsCopyrightWord(Tok(t, k))
            /\ Tok(t, k + 1) = " "
            /\ \E b \in OptSymbolAt(t, k + 2) : \E s2 \in OptSpaceAt(t, k + 2 + b) :
                   IsDigits(Tok(t, k + 2 + b + s2))

\* regExps[1]: (©|\(c\)) copyright.*
Rule2At(t, p) ==
    \E a \in SymbolAt(t, p) :
        Tok(t, p + a) = " " /\ IsCopyrightWord(Tok(t, p + a + 1))

\* regExps[2]: copyright (©|\(c\)).*
Rule3At(t, p) ==
    IsCopyrightWord(Tok(t, p)) /\ Tok(t, p + 1) = " " /\ SymbolAt(t, p + 2) # {}

\* regExps[3]: copyright [0-9]+.*
Rule4At(t, p) ==
    IsCopyrightWord(Tok(t, p)) /\ Tok(t, p + 1) = " " /\ IsDigits(Tok(t, p + 2))

RuleAt(i, t, p) ==
    CASE i = 1 -> Rule1At(t, p)
      [] i = 2 -> Rule2At(t, p)
      [] i = 3 -> Rule3At(t, p)
      [] i = 4 -> Rule4At(t, p)

MinOf(S) == CHOOSE m \in S : \A x \in S : m <= x

\* The last place of the line that holds place p ('.' matches no line end).
RECURSIVE LineEnd(_, _)
LineEnd(t, p) ==
    IF p >= Len(t) \/ Tok(t, p + 1) = "\n" THEN p ELSE LineEnd(t, p + 1)

\* regExps[i].exec(license)[0]: the leftmost match, which every rule's final
\* .* extends to the end of the line; <<>> when the rule matches nowhere.
RuleMatch(i, t) ==
    LET starts == { p \in 1..Len(t) : RuleAt(i, t, p) }
    IN  IF starts = {} THEN <<>>
        ELSE SubSeq(t, MinOf(starts), LineEnd(t, MinOf(starts)))

\* Faulty variant of the list of expressions: the order is reversed.
RuleOrder_Reversed == <<4, 3, 2, 1>>

\* regExps, by the numbers of the rules
RuleOrder == <<1, 2, 3, 4>>

RECURSIVE FirstRuleMatch(_, _)
FirstRuleMatch(t, k) ==
    IF k > Len(RuleOrder) THEN <<>>
    ELSE IF RuleMatch(RuleOrder[k], t) # <<>> THEN RuleMatch(RuleOrder[k], t)
    ELSE FirstRuleMatch(t, k + 1)

extractCopyright(license) == FirstRuleMatch(license, 1)

\* The first place after p that holds the token close; 0 when there is none.
RECURSIVE NextClose(_, _, _)
NextClose(t, p, close) ==
    IF p > Len(t) THEN 0
    ELSE IF t[p] = close THEN p
    ELSE NextClose(t, p + 1, close)

\* The end of the match of /\([^)]*\)|<[^>]*>/ that starts at p; 0 when none.
BracketEnd(t, p) ==
    IF Tok(t, p) = "(" THEN NextClose(t, p + 1, ")")
    ELSE IF Tok(t, p) = "<" THEN NextClose(t, p + 1, ">")
    ELSE 0

\* copyright.match(re) with the flag g: the matches from place p on, left to
\* right, none overlapping another.
RECURSIVE BracketMatches(_, _)
BracketMatches(t, p) ==
    IF p > Len(t) THEN <<>>
    ELSE IF BracketEnd(t, p) # 0
    THEN <<SubSeq(t, p, BracketEnd(t, p))>> \o BracketMatches(t, BracketEnd(t, p) + 1)
    ELSE BracketMatches(t, p + 1)

\* Faulty variant of the test: toLowerCase() is missing.
IsCSymbol_CaseSensitive(m) == m = <<"(", "c", ")">>

\* matches[i].toLowerCase() != '(c)'
IsCSymbol(m) == Len(m) = 3 /\ m[1] = "(" /\ Lower(m[2]) = "c" /\ m[3] = ")"

\* copyright.replace(m, ''): the first occurrence of m is cut out.
ReplaceFirst(t, m) ==
    LET at == { p \in 1..(Len(t) - Len(m) + 1) : SubSeq(t, p, p + Len(m) - 1) = m }
    IN  IF at = {} THEN t
        ELSE SubSeq(t, 1, MinOf(at) - 1) \o SubSeq(t, MinOf(at) + Len(m), Len(t))

RECURSIVE RemoveMatches(_, _, _)
RemoveMatches(t, matches, k) ==
    IF k > Len(matches) THEN t
    ELSE IF ~IsCSymbol(matches[k])
    THEN RemoveMatches(ReplaceFirst(t, matches[k]), matches, k + 1)
    ELSE RemoveMatches(t, matches, k + 1)

\* replace(/\s\s+/g, ' '): every run of two or more whitespace characters
\* becomes one space.
RECURSIVE WhitespaceRunEnd(_, _)
WhitespaceRunEnd(t, p) ==
    IF IsWhitespace(Tok(t, p + 1)) THEN WhitespaceRunEnd(t, p + 1) ELSE p

RECURSIVE CollapseWhitespace(_, _)
CollapseWhitespace(t, p) ==
    IF p > Len(t) THEN <<>>
    ELSE IF IsWhitespace(t[p]) /\ WhitespaceRunEnd(t, p) > p
    THEN <<" ">> \o CollapseWhitespace(t, WhitespaceRunEnd(t, p) + 1)
    ELSE <<t[p]>> \o CollapseWhitespace(t, p + 1)

\* trim()
RECURSIVE Trim(_)
Trim(t) ==
    IF t = <<>> THEN t
    ELSE IF IsWhitespace(t[1]) THEN Trim(Tail(t))
    ELSE IF IsWhitespace(t[Len(t)]) THEN Trim(SubSeq(t, 1, Len(t) - 1))
    ELSE t

\* Faulty variant: the flag g is missing, only the first match is looked at.
removeOverheadFromCopyright_FirstMatch(copyright) ==
    LET matches == BracketMatches(copyright, 1)
        first == IF matches = <<>> THEN <<>> ELSE <<matches[1]>>
    IN  Trim(CollapseWhitespace(RemoveMatches(copyright, first, 1), 1))

removeOverheadFromCopyright(copyright) ==
    Trim(CollapseWhitespace(
        RemoveMatches(copyright, BracketMatches(copyright, 1), 1), 1))

\* Faulty variant: the notice is returned as extracted, not cleaned.
parseCopyright_NoCleanup(source) == extractCopyright(source)

\* LicenseChecker.parseCopyright(source)
parseCopyright(source) ==
    LET copyright == extractCopyright(source)
    IN  IF copyright # <<>> THEN removeOverheadFromCopyright(copyright)
        ELSE copyright

\* ----------------------------------------------------------------- combine
\* The text both sinks of a version conflict receive (printWarning and the log).
VersionWarning(L, G) == [local |-> toString(L), generated |-> toString(G)]

\* The working state of combine: the generated list it mutates in place,
\* this.toBeAppended, the warnings emitted, and the flag localDataAdded.
CombineState(generated, appended, warned, written) ==
    [generated |-> generated, toBeAppended |-> appended, warnings |-> warned,
     overwritten |-> written, localDataAdded |-> FALSE]

\* Faulty variant of the overwrite: the generated record is replaced by the
\* local record as a whole, its version range included.
OverwriteBranch_WholeRecord(st, L, i, j) ==
    [st EXCEPT !.generated[j] = L,
               !.overwritten = @ \cup {<<i, j>>},
               !.localDataAdded = TRUE]

\* generated[j].licenses = local[i].licenses; generated[j].copyright = ...
OverwriteBranch(st, L, i, j) ==
    [st EXCEPT !.generated[j].licenses = L.licenses,
               !.generated[j].copyright = L.copyright,
               !.overwritten = @ \cup {<<i, j>>},
               !.localDataAdded = TRUE]

\* Faulty variants of the conflict branch: one warns only for the first conflict
\* of a local record, one warns without pushing the record.
ConflictBranch_WarnOnce(st, L, G, i) ==
    [st EXCEPT !.localDataAdded = TRUE,
               !.toBeAppended = Append(@, i),
               !.warnings = IF st.localDataAdded THEN @
                            ELSE Append(@, VersionWarning(L, G))]

ConflictBranch_NoPush(st, L, G, i) ==
    [st EXCEPT !.localDataAdded = TRUE,
               !.warnings = Append(@, VersionWarning(L, G))]

\* same package, version out of range: push local[i], warn
ConflictBranch(st, L, G, i) ==
    [st EXCEPT !.localDataAdded = TRUE,
               !.toBeAppended = Append(@, i),
               !.warnings = Append(@, VersionWarning(L, G))]

\* Faulty variant of the inner loop's body: a local record that is resolved
\* already overwrites no further generated record (a break after the first).
InnerStep_FirstOnly(st, L, i, j) ==
    LET G == st.generated[j]
    IN  IF samePackage(G, L) /\ isVersionInRangeOf(G, L)
        THEN IF st.localDataAdded THEN st ELSE OverwriteBranch(st, L, i, j)
        ELSE IF samePackage(G, L)
        THEN ConflictBranch(st, L, G, i)
        ELSE st

\* the body of the inner loop for generated[j]
InnerStep(st, L, i, j) ==
    LET G == st.generated[j]
    IN  IF samePackage(G, L) /\ isVersionInRangeOf(G, L)
        THEN OverwriteBranch(st, L, i, j)
        ELSE IF samePackage(G, L)
        THEN ConflictBranch(st, L, G, i)
        ELSE st

RECURSIVE InnerLoop(_, _, _, _)
InnerLoop(st, L, i, j) ==
    IF j > Len(st.generated) THEN st
    ELSE InnerLoop(InnerStep(st, L, i, j), L, i, j + 1)

\* Faulty variants of the final append: one ignores localDataAdded, one puts
\* the record at the front of the list.
FinalAppend_Always(st, i) ==
    [st EXCEPT !.toBeAppended = Append(@, i)]

FinalAppend_Unshift(st, i) ==
    IF ~st.localDataAdded
    THEN [st EXCEPT !.toBeAppended = <<i>> \o @]
    ELSE st

\* if (!localDataAdded) this.toBeAppended.push(local[i])
FinalAppend(st, i) ==
    IF ~st.localDataAdded
    THEN [st EXCEPT !.toBeAppended = Append(@, i)]
    ELSE st

\* the body of the outer loop for local[i]
OuterStep(st, local, i) ==
    FinalAppend(InnerLoop([st EXCEPT !.localDataAdded = FALSE], local[i], i, 1), i)

RECURSIVE OuterLoop(_, _, _)
OuterLoop(st, local, i) ==
    IF i > Len(local) THEN st
    ELSE OuterLoop(OuterStep(st, local, i), local, i + 1)

\* Faulty variant of combine: the list of records to append is emptied at the
\* start of the call.
CombineResult_Fresh ==
    OuterLoop(CombineState(packageInfos, <<>>, warnings, overwritten),
              localData, 1)

\* combine, on the fields of the instance as they are when it is called
CombineResult ==
    OuterLoop(CombineState(packageInfos, toBeAppended, warnings, overwritten),
              localData, 1)

Combine ==
    /\ phase = "ready"
    /\ LET res == CombineResult
       IN  /\ packageInfos' = res.generated
           /\ toBeAppended' = res.toBeAppended
           /\ warnings' = res.warnings
           /\ overwritten' = res.overwritten
    /\ phase' = "combined"
    /\ UNCHANGED <<localData, noCopyrightList, taskVars>>
    /\ UNCHANGED <<bom, parserVars, timerVars,
                   exporterVars>>

\* ----------------------------------------------------------------- exports
\* The indices of the records of infos whose copyright is '' from index k on.
RECURSIVE MissingCopyright(_, _)
MissingCopyright(infos, k) ==
    IF k > Len(infos) THEN <<>>
    ELSE IF infos[k].copyright = <<>>
    THEN <<k>> \o MissingCopyright(infos, k + 1)
    ELSE MissingCopyright(infos, k + 1)

\* Faulty variant of the report: the test of the copyright is missing, every
\* record is listed.
ExportJSON_ListsAll ==
    /\ phase = "combined"
    /\ noCopyrightList' = noCopyrightList \o [k \in 1..Len(packageInfos) |-> k]
    /\ phase' = "exported"
    /\ UNCHANGED <<packageInfos, localData, toBeAppended, warnings, overwritten,
                   taskVars>>
    /\ UNCHANGED <<bom, parserVars, timerVars,
                   exporterVars>>

\* exportJSON: the records without copyright are pushed to noCopyrightList.
ExportJSON ==
    /\ phase = "combined"
    /\ noCopyrightList' = noCopyrightList \o MissingCopyright(packageInfos, 1)
    /\ phase' = "exported"
    /\ UNCHANGED <<packageInfos, localData, toBeAppended, warnings, overwritten,
                   taskVars>>
    /\ UNCHANGED <<bom, parserVars, timerVars,
                   exporterVars>>

\* this.packageInfos = this.packageInfos.concat(this.toBeAppended)
ExportPDF ==
    /\ phase = "exported"
    /\ packageInfos' = packageInfos \o
           [k \in 1..Len(toBeAppended) |-> localData[toBeAppended[k]]]
    /\ phase' = "pdf"
    /\ UNCHANGED <<localData, toBeAppended, noCopyrightList, warnings, overwritten,
                   taskVars>>
    /\ UNCHANGED <<bom, parserVars, timerVars,
                   exporterVars>>

\* ------------------------------------------------- reconciliation runs
\* The texts of the copyright notices of the records.
CopyrightA == <<"Copyright", " ", "2020", " ", "A">>
CopyrightB == <<"(", "c", ")", " ", "Copyright", " ", "B">>
CopyrightG == <<"Copyright", " ", "2019", " ", "G">>

LicenseMIT == <<[id |-> "MIT"]>>
LicenseApache == <<[id |-> "Apache-2.0"]>>
LicenseISC == <<[id |-> "ISC"]>>

GeneratedRecords ==
    { PackageInfo(g, "n", v, LicenseISC, c, <<>>) :
        g \in {"g", ""}, v \in {"1.2.0", "2.0.0"}, c \in {<<>>, CopyrightG} }

LocalRecords ==
    { PackageInfo("g", n, v, p[1], p[2], <<>>) :
        n \in {"n", "m"}, v \in {"^1.0.0", "2.0.0"},
        p \in {<<LicenseMIT, CopyrightA>>, <<LicenseApache, CopyrightB>>} }

SeqsUpTo(S, n) == UNION { [1..k -> S] : k \in 0..n }

\* The state in which combine is called: the BOM and the local file have been
\* read and the extraction batch is over.
InitCombine ==
    /\ packageInfos \in SeqsUpTo(GeneratedRecords, MaxGenerated)
    /\ localData \in SeqsUpTo(LocalRecords, MaxLocal)
    /\ toBeAppended = <<>>
    /\ noCopyrightList = <<>>
    /\ warnings = <<>>
    /\ overwritten = {}
    /\ phase = "ready"
    /\ pc = [r \in 1..Len(packageInfos) |-> "done"]
    /\ refIdx = [r \in 1..Len(packageInfos) |-> 1]
    /\ observed = [r \in 1..Len(packageInfos) |-> NoValue]
    /\ waited = [r \in 1..Len(packageInfos) |-> FALSE]
    /\ queried = [r \in 1..Len(packageInfos) |-> 0]
    /\ requested = [r \in 1..Len(packageInfos) |-> <<>>]
    /\ readmeOnly = [r \in 1..Len(packageInfos) |-> FALSE]
    /\ progress = Len(packageInfos)
    /\ remaining = QuotaLimit
    /\ bom = [bomFormat |-> "cycloneDX", bomPath |-> "bom.json", parsable |-> TRUE]
    /\ parserInput = <<>>
    /\ parserOutput = <<>>
    /\ reset = 0 /\ now = 0 /\ waitTime = 0
    /\ bomData = <<>> /\ originalBom = <<>>

NextCombine == Combine \/ ExportJSON \/ ExportPDF

SpecCombine == InitCombine /\ [][NextCombine]_vars

\* -------------------------------------------- combine called a second time
\* combine is a public method and toBeAppended is a field initialised once, at
\* construction: a second call on the same instance runs the same loops over
\* the records the first call left, and pushes to the same list.
CombineAgain ==
    /\ phase = "combined"
    /\ LET res == CombineResult
       IN  /\ packageInfos' = res.generated
           /\ toBeAppended' = res.toBeAppended
           /\ warnings' = res.warnings
           /\ overwritten' = res.overwritten
    /\ phase' = "recombined"
    /\ UNCHANGED <<localData, noCopyrightList, taskVars>>
    /\ UNCHANGED <<bom, parserVars, timerVars,
                   exporterVars>>

NextRerun == Combine \/ CombineAgain \/ ExportJSON \/ ExportPDF

SpecRerun == InitCombine /\ [][NextRerun]_vars

\* -------------------------------------------------------------- extraction
\* What the downloader can answer: license texts and readme texts.
TextPlain == <<"MIT", " ", "License">>
TextLicense ==
    <<"MIT", "\n", "Copyright", " ", "(", "c", ")", " ", "2020", " ", "Jane", " ",
      "<", "jane", ">">>
TextReadme == <<"©", " ", "Copyright", " ", "Bob", "\n">>

LicenseTexts == {<<>>, TextPlain, TextLicense}
ReadmeTexts == {<<>>, TextReadme}

\* Faulty variant of the loop's condition: the break is missing.
LoopContinues_NoBreak(packageInfo, k) ==
    k <= Len(packageInfo.externalReferences)

\* for (const url of externalReferences) { if (copyright !== '') break; ...
\* : the loop goes on to request the reference at place k.
LoopContinues(packageInfo, k) ==
    k <= Len(packageInfo.externalReferences) /\ packageInfo.copyright = <<>>

\* parseCopyright, tabulated for the texts the downloader can answer.
ParsedCopyright == [t \in LicenseTexts \cup ReadmeTexts |-> parseCopyright(t)]

\* The copyright after the two ifs that follow a download.
AfterDownload(copyright, license, readme) ==
    LET fromLicense == IF license # <<>> THEN ParsedCopyright[license] ELSE copyright
    IN  IF readme # <<>> /\ fromLicense = <<>>
        THEN ParsedCopyright[license]
        ELSE fromLicense

\* The records of a BOM whose copyright is to be extracted.
Urls == [k \in 1..MaxRefs |-> "https://github.com/o/r" \o ToString(k)]

BatchRecords ==
    { PackageInfo("g", "n", "1.2.0", LicenseISC, c, SubSeq(Urls, 1, n)) :
        c \in {<<>>, CopyrightG}, n \in 0..MaxRefs }

\* The local files of the batch runs: none, or one record for the package.
BatchLocalData ==
    {<<>>} \cup
    { <<PackageInfo("g", "n", "^1.0.0", LicenseMIT, c, <<>>)>> : c \in {<<>>, CopyrightA} }

Records == 1..Len(packageInfos)

\* Faulty variant of the iteration: the references are taken from the end.
CurrentUrl_Reversed(r) ==
    packageInfos[r].externalReferences[
        Len(packageInfos[r].externalReferences) + 1 - refIdx[r]]

\* url, the loop variable of checkExternalReferences for record r
CurrentUrl(r) == packageInfos[r].externalReferences[refIdx[r]]

\* bomPath.split('.').pop(), for the paths of the model
DataFormat(bomPath) ==
    CASE bomPath = "bom.json" -> "json"
      [] bomPath = "bom." -> ""
      [] OTHER -> bomPath

BomFormats == {"cycloneDX", "spdx"}
BomPaths == {"bom.json", "bom."}

\* What a run can be given.
Boms == [bomFormat : BomFormats, bomPath : BomPaths, parsable : BOOLEAN]

\* Faulty variant of init: the error is reported, process.exit(1) is missing.
InitChecker_NoExit ==
    /\ phase = "init"
    /\ phase' = "parser"
    /\ UNCHANGED <<recordVars, taskVars, bom, parserVars, timerVars,
                   exporterVars>>

\* init: without a data format, or with a BOM format other than cycloneDX,
\* the process exits; otherwise the parser is set.
InitChecker ==
    /\ phase = "init"
    /\ IF DataFormat(bom.bomPath) = "" THEN phase' = "exited"
       ELSE IF bom.bomFormat = "cycloneDX" THEN phase' = "parser"
       ELSE phase' = "exited"
    /\ UNCHANGED <<recordVars, taskVars, bom, parserVars, timerVars,
                   exporterVars>>

\* retrievePackageInfos: the BOM is read and parsed; the process exits when
\* that throws.
RetrievePackageInfos ==
    /\ phase = "parser"
    /\ IF bom.parsable
       THEN /\ packageInfos' \in SeqsUpTo(BatchRecords, MaxPackages)
            /\ phase' = "loaded"
       ELSE /\ phase' = "exited"
            /\ UNCHANGED packageInfos
    /\ UNCHANGED <<localData, toBeAppended, noCopyrightList, warnings, overwritten,
                   taskVars, bom, parserVars, timerVars,
                   exporterVars>>

\* Faulty variant of the start: a task asks for the rate limit once per
\* reference right away (the references handled by callbacks, none awaited).
ExtractStart_AllRefs ==
    /\ phase = "loaded"
    /\ pc' = [r \in Records |->
                IF LoopContinues(packageInfos[r], 1) THEN "quota" ELSE "done"]
    /\ refIdx' = [r \in Records |-> 1]
    /\ queried' = [r \in Records |->
                IF LoopContinues(packageInfos[r], 1)
                THEN Len(packageInfos[r].externalReferences) ELSE 0]
    /\ observed' = [r \in Records |-> NoValue]
    /\ waited' = [r \in Records |-> FALSE]
    /\ requested' = [r \in Records |-> <<>>]
    /\ readmeOnly' = [r \in Records |-> FALSE]
    /\ progress' = Cardinality({ r \in Records : ~LoopContinues(packageInfos[r], 1) })
    /\ phase' = "extracting"
    /\ UNCHANGED <<recordVars, remaining>>
    /\ UNCHANGED <<bom, parserVars, timerVars,
                   exporterVars>>

\* extractCopyrightForAllPackages up to its await: progBar.start, then every
\* checkExternalReferences(packageInfo) runs up to its first await, or to its
\* end when it has nothing to request.
ExtractStart ==
    /\ phase = "loaded"
    /\ pc' = [r \in Records |->
                IF LoopContinues(packageInfos[r], 1) THEN "quota" ELSE "done"]
    /\ refIdx' = [r \in Records |-> 1]
    /\ queried' = [r \in Records |->
                IF LoopContinues(packageInfos[r], 1) THEN 1 ELSE 0]
    /\ observed' = [r \in Records |-> NoValue]
    /\ waited' = [r \in Records |-> FALSE]
    /\ requested' = [r \in Records |-> <<>>]
    /\ readmeOnly' = [r \in Records |-> FALSE]
    /\ progress' = Cardinality({ r \in Records : ~LoopContinues(packageInfos[r], 1) })
    /\ phase' = "extracting"
    /\ UNCHANGED <<recordVars, remaining>>
    /\ UNCHANGED <<bom, parserVars, timerVars,
                   exporterVars>>

\* Faulty variant of the gate: one sleeping task holds back every other task
\* (a suspension of the whole batch).
QuotaReturn_Global(r) ==
    /\ phase = "extracting" /\ pc[r] = "quota"
    /\ \A q \in Records : pc[q] # "wait"
    /\ observed' = [observed EXCEPT ![r] = remaining]
    /\ IF remaining < 1
       THEN /\ pc' = [pc EXCEPT ![r] = "wait"]
            /\ UNCHANGED requested
       ELSE /\ pc' = [pc EXCEPT ![r] = "fetch"]
            /\ requested' = [requested EXCEPT
                   ![r] = Append(@, CurrentUrl(r))]
    /\ UNCHANGED <<recordVars, refIdx, waited, queried, readmeOnly, progress,
                   remaining, phase>>
    /\ UNCHANGED <<bom, parserVars, timerVars,
                   exporterVars>>

\* Faulty variant of the gate: a mutex, which takes the request it grants off
\* the rate limit in the same step.
QuotaReturn_Reserve(r) ==
    /\ phase = "extracting" /\ pc[r] = "quota"
    /\ observed' = [observed EXCEPT ![r] = remaining]
    /\ IF remaining < 1
       THEN /\ pc' = [pc EXCEPT ![r] = "wait"]
            /\ UNCHANGED <<requested, remaining>>
       ELSE /\ pc' = [pc EXCEPT ![r] = "fetch"]
            /\ requested' = [requested EXCEPT
                   ![r] = Append(@, CurrentUrl(r))]
            /\ remaining' = remaining - 1
    /\ UNCHANGED <<recordVars, refIdx, waited, queried, readmeOnly, progress, phase>>
    /\ UNCHANGED <<bom, parserVars, timerVars,
                   exporterVars>>

\* downloadLicense after getRemainingRateObj has answered: with no request left
\* the task sleeps, otherwise it calls downloadLicenseAndREADME(url).
QuotaReturn(r) ==
    /\ phase = "extracting" /\ pc[r] = "quota"
    /\ observed' = [observed EXCEPT ![r] = remaining]
    /\ IF remaining < 1
       THEN /\ pc' = [pc EXCEPT ![r] = "wait"]
            /\ UNCHANGED requested
       ELSE /\ pc' = [pc EXCEPT ![r] = "fetch"]
            /\ requested' = [requested EXCEPT
                   ![r] = Append(@, CurrentUrl(r))]
    /\ UNCHANGED <<recordVars, refIdx, waited, queried, readmeOnly, progress,
                   remaining, phase>>
    /\ UNCHANGED <<bom, parserVars, timerVars,
                   exporterVars>>

\* Faulty variant of the wake-up: the task asks for the rate limit again
\* instead of downloading (a retry loop).
WaitElapsed_Requery(r) ==
    /\ phase = "extracting" /\ pc[r] = "wait"
    /\ pc' = [pc EXCEPT ![r] = "quota"]
    /\ queried' = [queried EXCEPT ![r] = @ + 1]
    /\ UNCHANGED <<recordVars, refIdx, observed, waited, requested, readmeOnly,
                   progress, remaining, phase>>
    /\ UNCHANGED <<bom, parserVars, timerVars,
                   exporterVars>>

\* the timer of the sleeping task fires: downloadLicenseAndREADME(url)
WaitElapsed(r) ==
    /\ phase = "extracting" /\ pc[r] = "wait"
    /\ pc' = [pc EXCEPT ![r] = "fetch"]
    /\ waited' = [waited EXCEPT ![r] = TRUE]
    /\ requested' = [requested EXCEPT
           ![r] = Append(@, CurrentUrl(r))]
    /\ UNCHANGED <<recordVars, refIdx, observed, queried, readmeOnly, progress,
                   remaining, phase>>
    /\ UNCHANGED <<bom, parserVars, timerVars,
                   exporterVars>>

\* Faulty variant of the assignment: the copyright found goes to every record
\* of the list, not to the task's own record.
DownloadReturn_AllRecords(r, license, readme) ==
    /\ phase = "extracting" /\ pc[r] = "fetch"
    /\ LET copyright == AfterDownload(packageInfos[r].copyright, license, readme)
           info == [packageInfos[r] EXCEPT !.copyright = copyright]
           next == refIdx[r] + 1
       IN  /\ packageInfos' = [q \in Records |->
                                  [packageInfos[q] EXCEPT !.copyright = copyright]]
           /\ refIdx' = [refIdx EXCEPT ![r] = next]
           /\ IF LoopContinues(info, next)
              THEN /\ pc' = [pc EXCEPT ![r] = "quota"]
                   /\ queried' = [queried EXCEPT ![r] = @ + 1]
                   /\ UNCHANGED progress
              ELSE /\ pc' = [pc EXCEPT ![r] = "done"]
                   /\ progress' = progress + 1
                   /\ UNCHANGED queried
    /\ readmeOnly' = [readmeOnly EXCEPT
           ![r] = @ \/ (license = <<>> /\ ParsedCopyright[readme] # <<>>)]
    /\ observed' = [observed EXCEPT ![r] = NoValue]
    /\ waited' = [waited EXCEPT ![r] = FALSE]
    /\ remaining' = IF remaining > 0 THEN remaining - 1 ELSE 0
    /\ UNCHANGED <<localData, toBeAppended, noCopyrightList, warnings, overwritten,
                   requested, phase>>
    /\ UNCHANGED <<bom, parserVars, timerVars,
                   exporterVars>>

\* downloadLicenseAndREADME has answered [license, readme]: the copyright is
\* set, and the loop goes to the next reference (the next await) or ends with
\* progBar.increment(). The remote service has counted the request against
\* the rate limit.
DownloadReturn(r, license, readme) ==
    /\ phase = "extracting" /\ pc[r] = "fetch"
    /\ LET copyright == AfterDownload(packageInfos[r].copyright, license, readme)
           info == [packageInfos[r] EXCEPT !.copyright = copyright]
           next == refIdx[r] + 1
       IN  /\ packageInfos' = [packageInfos EXCEPT ![r] = info]
           /\ refIdx' = [refIdx EXCEPT ![r] = next]
           /\ IF LoopContinues(info, next)
              THEN /\ pc' = [pc EXCEPT ![r] = "quota"]
                   /\ queried' = [queried EXCEPT ![r] = @ + 1]
                   /\ UNCHANGED progress
              ELSE /\ pc' = [pc EXCEPT ![r] = "done"]
                   /\ progress' = progress + 1
                   /\ UNCHANGED queried
    /\ readmeOnly' = [readmeOnly EXCEPT
           ![r] = @ \/ (license = <<>> /\ ParsedCopyright[readme] # <<>>)]
    /\ observed' = [observed EXCEPT ![r] = NoValue]
    /\ waited' = [waited EXCEPT ![r] = FALSE]
    /\ remaining' = IF remaining > 0 THEN remaining - 1 ELSE 0
    /\ UNCHANGED <<localData, toBeAppended, noCopyrightList, warnings, overwritten,
                   requested, phase>>
    /\ UNCHANGED <<bom, parserVars, timerVars,
                   exporterVars>>

\* The rate limit window of the remote service ends.
RateLimitReset ==
    /\ phase = "extracting" /\ remaining < QuotaLimit
    /\ remaining' = QuotaLimit
    /\ UNCHANGED <<recordVars, pc, refIdx, observed, waited, queried, requested,
                   readmeOnly, progress, phase>>
    /\ UNCHANGED <<bom, parserVars, timerVars,
                   exporterVars>>

\* Faulty variant of the end: the promises of the tasks are not awaited.
ExtractFinish_Early ==
    /\ phase = "extracting"
    /\ phase' = "extracted"
    /\ UNCHANGED <<recordVars, taskVars>>
    /\ UNCHANGED <<bom, parserVars, timerVars,
                   exporterVars>>

\* Promise.all has resolved: progBar.stop()
ExtractFinish ==
    /\ phase = "extracting"
    /\ \A r \in Records : pc[r] = "done"
    /\ phase' = "extracted"
    /\ UNCHANGED <<recordVars, taskVars>>
    /\ UNCHANGED <<bom, parserVars, timerVars,
                   exporterVars>>

\* retrieveLocalData: the file of the user's values is read and parsed, if any.
RetrieveLocalData ==
    /\ phase = "extracted"
    /\ localData' \in BatchLocalData
    /\ phase' = "ready"
    /\ UNCHANGED <<packageInfos, toBeAppended, noCopyrightList, warnings, overwritten,
                   taskVars>>
    /\ UNCHANGED <<bom, parserVars, timerVars,
                   exporterVars>>

\* The state of a new LicenseChecker.
Init ==
    /\ packageInfos = <<>>
    /\ localData = <<>>
    /\ toBeAppended = <<>>
    /\ noCopyrightList = <<>>
    /\ warnings = <<>>
    /\ overwritten = {}
    /\ phase = "init"
    /\ pc = <<>>
    /\ refIdx = <<>>
    /\ observed = <<>>
    /\ waited = <<>>
    /\ queried = <<>>
    /\ requested = <<>>
    /\ readmeOnly = <<>>
    /\ progress = 0
    /\ remaining \in 0..QuotaLimit
    /\ bom \in Boms
    /\ parserInput = <<>>
    /\ parserOutput = <<>>
    /\ reset = 0 /\ now = 0 /\ waitTime = 0
    /\ bomData = <<>> /\ originalBom = <<>>

Next ==
    \/ InitChecker
    \/ RetrievePackageInfos
    \/ ExtractStart
    \/ \E r \in Records : QuotaReturn(r)
    \/ \E r \in Records : WaitElapsed(r)
    \/ \E r \in Records : \E license \in LicenseTexts : \E readme \in ReadmeTexts :
           DownloadReturn(r, license, readme)
    \/ RateLimitReset
    \/ ExtractFinish
    \/ RetrieveLocalData
    \/ Combine
    \/ ExportJSON
    \/ ExportPDF

Spec == Init /\ [][Next]_vars

\* A step of the task of record r: the answer to its pending request arrives,
\* or its timer fires, and the task runs up to its next await.
TaskStep(r) ==
    /\ r \in Records
    /\ \/ QuotaReturn(r)
       \/ WaitElapsed(r)
       \/ \E license \in LicenseTexts : \E readme \in ReadmeTexts :
              DownloadReturn(r, license, readme)

\* The batches of the runs under fairness: a record has all of its references
\* or none, with or without a copyright of its own.
FairRecords == { p \in BatchRecords : Len(p.externalReferences) \in {0, MaxRefs} }

RetrieveFairBatch ==
    /\ phase = "parser"
    /\ IF bom.parsable
       THEN /\ packageInfos' \in SeqsUpTo(FairRecords, MaxPackages)
            /\ phase' = "loaded"
       ELSE /\ phase' = "exited"
            /\ UNCHANGED packageInfos
    /\ UNCHANGED <<localData, toBeAppended, noCopyrightList, warnings, overwritten,
                   taskVars, bom, parserVars, timerVars,
                   exporterVars>>

\* The run up to the return of extractCopyrightForAllPackages.
NextExtract ==
    \/ InitChecker
    \/ RetrieveFairBatch
    \/ ExtractStart
    \/ \E r \in 1..MaxPackages : TaskStep(r)
    \/ RateLimitReset
    \/ ExtractFinish

\* That run with every call of the downloader answered, every timer firing
\* and the event loop running what is ready: no task step and no resolution
\* of Promise.all is put off for ever.
SpecFair ==
    /\ Init /\ [][NextExtract]_vars
    /\ \A r \in 1..MaxPackages : WF_vars(TaskStep(r))
    /\ WF_vars(ExtractFinish)

\* The batches of the runs that follow the records through the whole run: the
\* versions of the package in and out of the range of the local record, a
\* record with one reference or none.
FrameRecords ==
    { PackageInfo("g", "n", v, LicenseISC, <<>>, SubSeq(Urls, 1, n)) :
        v \in {"1.2.0", "2.0.0"}, n \in {0, 1} }

RetrieveFrameBatch ==
    /\ phase = "parser"
    /\ IF bom.parsable
       THEN /\ packageInfos' \in SeqsUpTo(FrameRecords, MaxPackages)
            /\ phase' = "loaded"
       ELSE /\ phase' = "exited"
            /\ UNCHANGED packageInfos
    /\ UNCHANGED <<localData, toBeAppended, noCopyrightList, warnings, overwritten,
                   taskVars, bom, parserVars, timerVars,
                   exporterVars>>

NextFrame ==
    \/ InitChecker
    \/ RetrieveFrameBatch
    \/ ExtractStart
    \/ \E r \in 1..MaxPackages : TaskStep(r)
    \/ RateLimitReset
    \/ ExtractFinish
    \/ RetrieveLocalData
    \/ Combine
    \/ ExportJSON
    \/ ExportPDF

SpecFrame == Init /\ [][NextFrame]_vars

\* ------------------------------------------------ CopyrightParser runs
\* What the texts given to CopyrightParser are made of: brackets around the
\* letter c and whitespace, or the words and signs of a copyright notice.
BracketTokens == {"(", ")", "<", ">", " ", "c", "C"}
NoticeTokens == {"©", "(", "c", ")", " ", "\n", "copyright", "2020"}

ParserTexts ==
    SeqsUpTo(BracketTokens, MaxTextLen) \cup SeqsUpTo(NoticeTokens, MaxNoticeLen)

\* extractCopyright(parserInput)
ExtractCopyright ==
    /\ phase = "text"
    /\ parserOutput' = extractCopyright(parserInput)
    /\ phase' = "matched"
    /\ UNCHANGED <<recordVars, taskVars, bom, parserInput, timerVars,
                   exporterVars>>

\* removeOverheadFromCopyright, called on the text and then on its own result
RemoveOverhead ==
    /\ phase \in {"text", "cleaned"}
    /\ IF phase = "text"
       THEN /\ parserOutput' = removeOverheadFromCopyright(parserInput)
            /\ phase' = "cleaned"
       ELSE /\ parserOutput' = removeOverheadFromCopyright(parserOutput)
            /\ phase' = "cleaned2"
    /\ UNCHANGED <<recordVars, taskVars, bom, parserInput, timerVars,
                   exporterVars>>

\* LicenseChecker.parseCopyright(parserInput)
ParseCopyright ==
    /\ phase = "text"
    /\ parserOutput' = parseCopyright(parserInput)
    /\ phase' = "parsed"
    /\ UNCHANGED <<recordVars, taskVars, bom, parserInput, timerVars,
                   exporterVars>>

InitParser ==
    /\ parserInput \in ParserTexts
    /\ parserOutput = <<>>
    /\ reset = 0 /\ now = 0 /\ waitTime = 0
    /\ bomData = <<>> /\ originalBom = <<>>
    /\ phase = "text"
    /\ packageInfos = <<>>
    /\ localData = <<>>
    /\ toBeAppended = <<>>
    /\ noCopyrightList = <<>>
    /\ warnings = <<>>
    /\ overwritten = {}
    /\ pc = <<>>
    /\ refIdx = <<>>
    /\ observed = <<>>
    /\ waited = <<>>
    /\ queried = <<>>
    /\ requested = <<>>
    /\ readmeOnly = <<>>
    /\ progress = 0
    /\ remaining = QuotaLimit
    /\ bom = [bomFormat |-> "cycloneDX", bomPath |-> "bom.json", parsable |-> TRUE]

NextParser == ExtractCopyright \/ RemoveOverhead \/ ParseCopyright

SpecParser == InitParser /\ [][NextParser]_vars

\* ------------------------------------------------ downloadLicense runs
Abs(x) == IF x < 0 THEN -x ELSE x

\* Faulty variant of the delay: the difference is taken with its sign.
WaitTime_Signed(resetSeconds, nowMillis) ==
    resetSeconds * 1000 - nowMillis + 10000

\* Math.abs(reset * 1000 - Date.now()) + 10000
WaitTime(resetSeconds, nowMillis) ==
    Abs(resetSeconds * 1000 - nowMillis) + 10000

\* The clock readings: every quarter of a second up to a second after the
\* latest reset.
ClockReadings == { 250 * k : k \in 0..(4 * (MaxReset + 1)) }

\* getRemainingRateObj has answered {remaining, reset}: the call sleeps when
\* no request is left and goes on to the download otherwise.
RateAnswer ==
    /\ phase = "rate"
    /\ IF remaining < 1
       THEN /\ waitTime' = WaitTime(reset, now)
            /\ phase' = "sleeping"
       ELSE /\ phase' = "download"
            /\ UNCHANGED waitTime
    /\ UNCHANGED <<recordVars, pc, refIdx, observed, waited, queried, requested,
                   readmeOnly, progress, remaining, bom, parserVars, reset, now,
                   exporterVars>>

\* the timer fires, waitTime milliseconds later: downloadLicenseAndREADME(url)
TimerFires ==
    /\ phase = "sleeping"
    /\ now' = now + waitTime
    /\ phase' = "download"
    /\ UNCHANGED <<recordVars, taskVars, bom, parserVars, reset, waitTime,
                   exporterVars>>

InitBackoff ==
    /\ phase = "rate"
    /\ remaining \in 0..QuotaLimit
    /\ reset \in 0..MaxReset
    /\ now \in ClockReadings
    /\ waitTime = 0
    /\ packageInfos = <<>>
    /\ localData = <<>>
    /\ toBeAppended = <<>>
    /\ noCopyrightList = <<>>
    /\ warnings = <<>>
    /\ overwritten = {}
    /\ pc = <<>>
    /\ refIdx = <<>>
    /\ observed = <<>>
    /\ waited = <<>>
    /\ queried = <<>>
    /\ requested = <<>>
    /\ readmeOnly = <<>>
    /\ progress = 0
    /\ bom = [bomFormat |-> "cycloneDX", bomPath |-> "bom.json", parsable |-> TRUE]
    /\ parserInput = <<>> /\ parserOutput = <<>>
    /\ bomData = <<>> /\ originalBom = <<>>

NextBackoff == RateAnswer \/ TimerFires

SpecBackoff == InitBackoff /\ [][NextBackoff]_vars

\* ------------------------------------------------ CycloneDXExporter runs
\* component['copyright'] = copyright: the key is added when the component
\* has none, its value is replaced otherwise.
SetCopyright(component, copyright) ==
    [k \in (DOMAIN component) \cup {"copyright"} |->
        IF k = "copyright" THEN copyright ELSE component[k]]

\* Faulty variant of the loop's body: the test of the copyright is missing,
\* the empty copyright is written as well.
InsertStep_Unconditional(infos, bomObject, i) ==
    [bomObject EXCEPT !.components[i] = SetCopyright(@, infos[i].copyright)]

\* if (copyright !== '') originalBom['components'][i]['copyright'] = copyright
InsertStep(infos, bomObject, i) ==
    IF infos[i].copyright # <<>>
    THEN [bomObject EXCEPT !.components[i] = SetCopyright(@, infos[i].copyright)]
    ELSE bomObject

\* for (let i = 0; i < packageInfos.length; i++), indices from 1 here
RECURSIVE InsertLoop(_, _, _)
InsertLoop(infos, bomObject, i) ==
    IF i > Len(infos) THEN bomObject
    ELSE InsertLoop(infos, InsertStep(infos, bomObject, i), i + 1)

insertCopyrightIntoBom(infos, bomObject) == InsertLoop(infos, bomObject, 1)

\* The components of the BOMs: with a copyright entry of their own or none.
Components ==
    { [name |-> "n", version |-> "1.2.0"],
      [name |-> "n", version |-> "1.2.0", copyright |-> CopyrightG] }

\* The records handed to the exporter: without copyright or with one.
ExportRecords ==
    { PackageInfo("g", "n", "1.2.0", LicenseISC, c, <<>>) :
        c \in {<<>>, CopyrightA, CopyrightB} }

\* exportJson: JSON.parse(originalBom), insertCopyrightIntoBom, and the
\* result written to out/updatedBom.json.
ExportJson ==
    /\ phase = "export"
    /\ originalBom' = insertCopyrightIntoBom(packageInfos, bomData)
    /\ phase' = "written"
    /\ UNCHANGED <<recordVars, taskVars, bom, parserVars, timerVars, bomData>>

\* exportBom is called with the records parsed from the BOM, one for each of
\* its first components.
InitExporter ==
    /\ phase = "export"
    /\ bomData \in { [bomFormat |-> "CycloneDX", components |-> cs] :
                        cs \in SeqsUpTo(Components, MaxComponents) }
    /\ packageInfos \in SeqsUpTo(ExportRecords, MaxComponents)
    /\ Len(packageInfos) <= Len(bomData.components)
    /\ originalBom = <<>>
    /\ localData = <<>>
    /\ toBeAppended = <<>>
    /\ noCopyrightList = <<>>
    /\ warnings = <<>>
    /\ overwritten = {}
    /\ pc = <<>>
    /\ refIdx = <<>>
    /\ observed = <<>>
    /\ waited = <<>>
    /\ queried = <<>>
    /\ requested = <<>>
    /\ readmeOnly = <<>>
    /\ progress = 0
    /\ remaining = QuotaLimit
    /\ bom = [bomFormat |-> "cycloneDX", bomPath |-> "bom.json", parsable |-> TRUE]
    /\ parserInput = <<>> /\ parserOutput = <<>>
    /\ reset = 0 /\ now = 0 /\ waitTime = 0

NextExporter == ExportJson

SpecExporter == InitExporter /\ [][NextExporter]_vars

\* ------------------------------------------------- reconciliation: claims
\* What the claims say of a local record i and a generated record j, read off
\* the records themselves (combine changes neither identity nor version).
ExactMatch(i, j) ==
    /\ samePackage(packageInfos[j], localData[i])
    /\ isVersionInRangeOf(packageInfos[j], localData[i])

VersionConflict(i, j) ==
    /\ samePackage(packageInfos[j], localData[i])
    /\ ~isVersionInRangeOf(packageInfos[j], localData[i])

LocalIdx == 1..Len(localData)
GeneratedIdx == 1..Len(packageInfos)
Appended == { toBeAppended[k] : k \in 1..Len(toBeAppended) }
Occurrences(s, x) == Cardinality({ k \in 1..Len(s) : s[k] = x })
MaxOf(S) == CHOOSE m \in S : \A x \in S : x <= m

\* C1: after combine every generated record that exactly matches (same package,
\* version in range) some local record carries the licenses and the copyright
\* of the last local record that exactly matches it; all of the generated
\* records that match one local record are overwritten, not only the first.
C1_OverwriteEveryMatch ==
    phase = "combined" =>
        \A j \in GeneratedIdx :
            LET ms == { i \in LocalIdx : ExactMatch(i, j) }
            IN  ms # {} =>
                    /\ packageInfos[j].licenses = localData[MaxOf(ms)].licenses
                    /\ packageInfos[j].copyright = localData[MaxOf(ms)].copyright

\* C1 witness: two generated records both matching local 1, one of them matched
\* by a later local record with another copyright as well.
C1_Witness ==
    /\ phase = "combined"
    /\ Len(localData) = 2 /\ Len(packageInfos) = 2
    /\ ExactMatch(1, 1) /\ ExactMatch(1, 2) /\ ExactMatch(2, 1) /\ ExactMatch(2, 2)
    /\ localData[1].copyright # localData[2].copyright
    /\ packageInfos[1].copyright = localData[2].copyright

\* C2 (as claimed): after combine the appended list holds exactly the local
\* records without an exact match in the generated list.
C2_AppendedExactlyUnmatched ==
    phase = "combined" =>
        \A i \in LocalIdx :
            (i \in Appended) <=> ~(\E j \in GeneratedIdx : ExactMatch(i, j))

\* The k-th version conflict in scan order (local index outer, generated inner).
ConflictPairs == { p \in LocalIdx \X GeneratedIdx : VersionConflict(p[1], p[2]) }
ScanBefore(p, q) == p[1] < q[1] \/ (p[1] = q[1] /\ p[2] < q[2])
ScanRank(p) == 1 + Cardinality({ q \in ConflictPairs : ScanBefore(q, p) })

\* C3: combine emits one warning per pair (L, G') of same package and version
\* out of range, in scan order, naming L and G' by toString; a single local
\* record whose only identity match is out of range is appended with exactly
\* one warning.
C3_OneWarningPerConflict ==
    phase = "combined" =>
        /\ Len(warnings) = Cardinality(ConflictPairs)
        /\ \A p \in ConflictPairs :
               warnings[ScanRank(p)] =
                   [local |-> toString(localData[p[1]]),
                    generated |-> toString(packageInfos[p[2]])]
        /\ (Len(localData) = 1 /\ Cardinality(ConflictPairs) = 1
              /\ ~(\E j \in GeneratedIdx : ExactMatch(1, j)))
               => (toBeAppended = <<1>> /\ Len(warnings) = 1)

\* C3 witness: one local record in conflict with two generated records.
C3_Witness ==
    /\ phase = "combined"
    /\ Len(localData) = 1 /\ Len(packageInfos) = 2
    /\ VersionConflict(1, 1) /\ VersionConflict(1, 2)
    /\ packageInfos[1] # packageInfos[2]
    /\ Len(warnings) >= 2

\* C4: a local record is appended by the final, warning-free branch iff no
\* generated record has its identity: then it is in the appended list exactly
\* once and no warning names it; a record with an identity match is appended
\* only by the conflict branch, once per conflict, never by the final branch.
C4_FinalAppendIffNoIdentity ==
    phase = "combined" =>
        \A i \in LocalIdx :
            LET same == { j \in GeneratedIdx : samePackage(packageInfos[j], localData[i]) }
                conflicts == { j \in GeneratedIdx : VersionConflict(i, j) }
            IN  /\ same = {} =>
                    /\ Occurrences(toBeAppended, i) = 1
                    /\ \A k \in 1..Len(warnings) :
                           warnings[k].local # toString(localData[i])
                /\ same # {} =>
                    Occurrences(toBeAppended, i) = Cardinality(conflicts)

\* C4 witness: local 1 resolved by the overwrite branch, local 2 without any
\* identity match and appended by the final branch.
C4_Witness ==
    /\ phase = "combined"
    /\ Len(localData) = 2
    /\ \E j \in GeneratedIdx : ExactMatch(1, j)
    /\ \A j \in GeneratedIdx : ~samePackage(packageInfos[j], localData[2])
    /\ toBeAppended = <<2>>
    /\ warnings = <<>>

\* C5: no local record is dropped: each has been copied into a generated record
\* that exactly matches it or is in the appended list, and each local record in
\* a version conflict is in the appended list.
C5_NoLocalDropped ==
    phase = "combined" =>
        \A i \in LocalIdx :
            /\ \/ \E j \in GeneratedIdx : <<i, j>> \in overwritten /\ ExactMatch(i, j)
               \/ i \in Appended
            /\ (\E j \in GeneratedIdx : VersionConflict(i, j)) => i \in Appended

\* C5 witness: local 1 copied into a generated record, local 2 in a version
\* conflict only and appended.
C5_Witness ==
    /\ phase = "combined"
    /\ Len(localData) = 2
    /\ \E j \in GeneratedIdx : <<1, j>> \in overwritten
    /\ 1 \notin Appended
    /\ \E j \in GeneratedIdx : VersionConflict(2, j)
    /\ ~(\E j \in GeneratedIdx : ExactMatch(2, j))
    /\ 2 \in Appended

\* C6: the appended list follows the order of the local list.
C6_AppendedInLocalOrder ==
    \A p, q \in 1..Len(toBeAppended) :
        p < q => toBeAppended[p] <= toBeAppended[q]

\* C6 witness: two different local records appended.
C6_Witness ==
    /\ phase = "combined"
    /\ Len(toBeAppended) >= 2
    /\ toBeAppended[1] < toBeAppended[Len(toBeAppended)]

\* ----------------------------------------------------- extraction: claims
Tasks == DOMAIN pc

\* C7 (as claimed): a copyright that is non-empty is never changed by a later
\* step, be it a further extraction attempt or combine.
C7_CopyrightSetOnce ==
    [][\A r \in Records :
          packageInfos[r].copyright # <<>> =>
              packageInfos'[r].copyright = packageInfos[r].copyright]_vars

\* C7 (amended): the extraction never changes a copyright that is non-empty
\* (the first successful extraction wins); the one step that changes it is
\* combine, which gives a generated record the copyright of a local record
\* that exactly matches it, whatever the record held before.
C7_SetOnceUntilCombine ==
    [][\A r \in Records :
          packageInfos[r].copyright # <<>> =>
              \/ packageInfos'[r].copyright = packageInfos[r].copyright
              \/ /\ phase = "ready" /\ phase' = "combined"
                 /\ \E i \in 1..Len(localData) :
                        /\ ExactMatch(i, r)
                        /\ packageInfos'[r].copyright = localData[i].copyright]_vars

\* C7 witness: a record whose first reference gave the copyright, its second
\* reference never requested.
C7_Witness ==
    /\ phase = "extracting"
    /\ \E r \in Tasks :
           /\ pc[r] = "done"
           /\ packageInfos[r].copyright = ParsedCopyright[TextLicense]
           /\ Len(requested[r]) = 1
           /\ Len(packageInfos[r].externalReferences) = 2

IsPrefix(s, t) == Len(s) <= Len(t) /\ s = SubSeq(t, 1, Len(s))

\* C8: the references of a record are requested in list order, each at most
\* once, and no request (rate limit query or download) is made for a record
\* whose copyright is non-empty, so none at all when it is non-empty at start.
C8_RequestsInOrderUntilFound ==
    /\ [](\A r \in Tasks :
            IsPrefix(requested[r], packageInfos[r].externalReferences))
    /\ [][\A r \in Tasks \cap DOMAIN pc' :
            packageInfos[r].copyright # <<>> =>
                /\ requested'[r] = requested[r]
                /\ queried'[r] = queried[r]]_vars

\* C8 witness: one record with both references requested in order, another
\* with a copyright from the start, references of its own and no request.
C8_Witness ==
    /\ phase = "extracted"
    /\ Len(packageInfos) = 2
    /\ \E r, q \in Tasks :
           /\ Len(requested[r]) = 2
           /\ requested[r] = packageInfos[r].externalReferences
           /\ requested[r][1] # requested[r][2]
           /\ packageInfos[q].copyright = CopyrightG
           /\ Len(packageInfos[q].externalReferences) = 2
           /\ requested[q] = <<>> /\ queried[q] = 0

\* C9 (as claimed): a record for which some download gave an empty license
\* text and a readme with a copyright notice ends the extraction with a
\* copyright that is not empty.
C9_ReadmeFallback ==
    phase \in {"extracting", "extracted"} =>
        \A r \in Tasks :
            (pc[r] = "done" /\ readmeOnly[r]) => packageInfos[r].copyright # <<>>

\* C10: every download follows exactly one rate limit query of the same task;
\* a task that saw remaining < 1 downloads after its sleep and only then, and
\* does so without a second query; no query is left without its download.
C10_OneQueryPerFetch ==
    /\ [](\A r \in Tasks :
            /\ queried[r] = Len(requested[r])
                              + (IF pc[r] \in {"quota", "wait"} THEN 1 ELSE 0)
            /\ pc[r] = "wait" => (observed[r] = 0 /\ ~waited[r])
            /\ pc[r] = "fetch" =>
                   \/ observed[r] >= 1 /\ ~waited[r]
                   \/ observed[r] = 0 /\ waited[r])
    /\ [][\A r \in Tasks \cap DOMAIN pc' :
            (pc[r] = "wait" /\ pc'[r] # "wait") =>
                /\ pc'[r] = "fetch"
                /\ queried'[r] = queried[r]
                /\ requested'[r] = Append(requested[r], CurrentUrl(r))]_vars

\* C10 witness: the second request of a record, downloading after its sleep.
C10_Witness ==
    /\ phase = "extracting"
    /\ \E r \in Tasks :
           /\ pc[r] = "fetch" /\ waited[r] /\ observed[r] = 0
           /\ queried[r] = 2 /\ Len(requested[r]) = 2

UnwaitedFetches == { r \in Tasks : pc[r] = "fetch" /\ ~waited[r] }

\* C12: the rate limit check is a read followed by a decision, not a mutex:
\* the step that takes the answer of getRemainingRateObj leaves the rate limit
\* as it is, records the value read and lets the task download iff that value
\* is at least 1, so nothing keeps tasks that read the same value from all
\* downloading.
C12_GateReadsOnly ==
    [][\A r \in Tasks \cap DOMAIN pc' :
          (pc[r] = "quota" /\ pc'[r] # "quota") =>
              /\ remaining' = remaining
              /\ observed'[r] = remaining
              /\ (pc'[r] = "fetch") <=> (remaining >= 1)
              /\ (pc'[r] = "wait") <=> (remaining < 1)]_vars

\* C12 witness: more downloads under way without a sleep than the requests
\* their tasks saw left, all of them having seen the same value.
C12_Witness ==
    /\ phase = "extracting"
    /\ Cardinality(UnwaitedFetches) >= 2
    /\ \A r \in UnwaitedFetches :
           /\ observed[r] >= 1
           /\ observed[r] = remaining
           /\ observed[r] < Cardinality(UnwaitedFetches)

\* The tasks that take a step: their place in checkExternalReferences changes.
Stepping == { r \in Tasks \cap DOMAIN pc' : pc'[r] # pc[r] \/ refIdx'[r] # refIdx[r] }

\* C13: during the extraction a step of the task of record r changes no
\* record but r, and of r nothing but the copyright: the list keeps its
\* length, and a record is changed only by a step of its own task, the one
\* that handles the answer to its download.
C13_TaskMutatesOwnRecord ==
    [][phase = "extracting" =>
          /\ Len(packageInfos') = Len(packageInfos)
          /\ \A q \in Records :
                 packageInfos'[q] # packageInfos[q] =>
                     /\ Stepping = {q}
                     /\ pc[q] = "fetch"
                     /\ packageInfos'[q] =
                            [packageInfos[q] EXCEPT !.copyright = packageInfos'[q].copyright]]_vars

\* C13 witness: the task of one record has set its copyright while the task
\* of another, still without copyright, is in the middle of its requests.
C13_Witness ==
    /\ phase = "extracting"
    /\ \E r, q \in Tasks :
           /\ r # q
           /\ pc[r] = "done" /\ Len(requested[r]) >= 1
           /\ packageInfos[r].copyright # <<>>
           /\ pc[q] = "fetch" /\ Len(requested[q]) = 2
           /\ packageInfos[q].copyright = <<>>

\* The answers to downloads that the task of record r has applied to it, its
\* downloads under way, and its requests under way of any kind (the rate
\* limit query and the sleep that may follow it, or the download).
Applied(r) == refIdx[r] - 1
FetchesInFlight(r) == Len(requested[r]) - Applied(r)
RequestsInFlight(r) == queried[r] - Applied(r)

\* C14: a record has at most one request under way at any moment (a rate
\* limit query, the sleep after it, or a download), it has one exactly while
\* its task is not done, and the download of reference k + 1 is issued only
\* when the answers to the downloads of references 1..k have been applied.
C14_OneInFlightPerRecord ==
    /\ [](\A r \in Tasks :
            /\ RequestsInFlight(r) \in {0, 1}
            /\ FetchesInFlight(r) \in {0, 1}
            /\ (RequestsInFlight(r) = 1) <=> (pc[r] # "done")
            /\ (FetchesInFlight(r) = 1) <=> (pc[r] = "fetch"))
    /\ [][\A r \in Tasks \cap DOMAIN pc' :
            Len(requested'[r]) > Len(requested[r]) =>
                /\ Len(requested'[r]) = Len(requested[r]) + 1
                /\ Applied(r) = Len(requested[r])]_vars

\* C14 witness: two records with one request under way each, one of them the
\* download of its second reference, the answer to the first applied.
C14_Witness ==
    /\ phase = "extracting"
    /\ \E r, q \in Tasks :
           /\ r # q
           /\ pc[r] = "fetch" /\ Len(requested[r]) = 2 /\ Applied(r) = 1
           /\ RequestsInFlight(r) = 1
           /\ pc[q] \in {"quota", "fetch"} /\ RequestsInFlight(q) = 1

Finished == { r \in Tasks : pc[r] = "done" }

\* C15: a batch that has started runs to its end: with every call of the
\* downloader answered and every ready step taken, extractCopyrightForAllPackages
\* returns; progBar counts the finished tasks, one increment per record, and
\* stands at the number of records when the function returns, which it does
\* only when every task is done.
C15_BatchRunsToCompletion ==
    /\ [](phase \notin {"init", "loaded"} => progress = Cardinality(Finished))
    /\ [](phase \notin {"init", "loaded", "extracting"} =>
            /\ Finished = Tasks
            /\ progress = Cardinality(Tasks))
    /\ [][\A r \in Tasks \cap DOMAIN pc' : pc[r] = "done" => pc'[r] = "done"]_vars
    /\ (phase = "extracting") ~> (phase = "extracted")

\* C15 witness: the batch has returned after two tasks that each had to
\* request both of their references.
C15_Witness ==
    /\ phase = "extracted"
    /\ Cardinality(Tasks) = 2
    /\ progress = 2
    /\ \A r \in Tasks : Len(requested[r]) = 2

\* The task of record r has requested every reference and found no copyright.
Exhausted(r) ==
    /\ pc[r] = "done"
    /\ packageInfos[r].copyright = <<>>
    /\ Len(packageInfos[r].externalReferences) >= 1
    /\ requested[r] = packageInfos[r].externalReferences

\* C16: a record whose references are exhausted without a copyright stops
\* nothing: every task that is not done can still take its next step; and once
\* exportJSON has run, noCopyrightList holds the generated records whose
\* copyright is '', each once, in the order of the list, and no other record.
C16_UnresolvedListedOnce ==
    /\ \A r, q \in Tasks :
           (phase = "extracting" /\ Exhausted(r) /\ pc[q] # "done") => ENABLED TaskStep(q)
    /\ phase \in {"exported", "pdf"} =>
           /\ \A r \in Tasks :
                  Occurrences(noCopyrightList, r) =
                      (IF packageInfos[r].copyright = <<>> THEN 1 ELSE 0)
           /\ \A k \in 1..Len(noCopyrightList) : noCopyrightList[k] \in Tasks
           /\ \A k, l \in 1..Len(noCopyrightList) :
                  k < l => noCopyrightList[k] < noCopyrightList[l]

\* C16 witness: of two records the first has exhausted its two references
\* without a copyright and is listed, the second got its copyright from its
\* second reference and is not.
C16_Witness ==
    /\ phase = "exported"
    /\ Cardinality(Tasks) = 2
    /\ Len(requested[1]) = 2 /\ packageInfos[1].copyright = <<>>
    /\ Len(requested[2]) = 2 /\ packageInfos[2].copyright = ParsedCopyright[TextLicense]
    /\ noCopyrightList = <<1>>

\* The run is given a BOM it cannot use: no data format in the path, a BOM
\* format other than cycloneDX, or a file that cannot be read or parsed.
Malformed ==
    \/ DataFormat(bom.bomPath) = ""
    \/ bom.bomFormat # "cycloneDX"
    \/ ~bom.parsable

\* C17: malformed input is fatal: with an unsupported format init exits, with
\* a file that cannot be read or parsed retrievePackageInfos exits; after the
\* exit no step is taken, so a run with malformed input never gets as far as
\* the extraction, combine or the exports, and has read, listed and written
\* nothing when it ends.
C17_MalformedInputIsFatal ==
    /\ [](Malformed => phase \in {"init", "parser", "exited"})
    /\ [](phase = "exited" =>
            /\ packageInfos = <<>> /\ pc = <<>> /\ progress = 0
            /\ toBeAppended = <<>> /\ noCopyrightList = <<>> /\ warnings = <<>>)
    /\ [][(phase = "init" /\ (DataFormat(bom.bomPath) = "" \/ bom.bomFormat # "cycloneDX"))
            => phase' = "exited"]_vars
    /\ [][(phase = "parser" /\ ~bom.parsable) => phase' = "exited"]_vars
    /\ [][phase # "exited"]_vars

\* C17 witness: a run with a supported format and a data format whose file
\* cannot be parsed has exited in retrievePackageInfos.
C17_Witness ==
    /\ phase = "exited"
    /\ bom.bomFormat = "cycloneDX" /\ DataFormat(bom.bomPath) = "json"
    /\ ~bom.parsable

\* ------------------------------------------------ CopyrightParser: claims
\* C18: removeOverheadFromCopyright is idempotent: called on its own result
\* it returns that result.
C18_NormalizeIdempotent ==
    [][(phase = "cleaned" /\ phase' = "cleaned2") => parserOutput' = parserOutput]_vars

\* C18 witness: a text the first call has changed, with something left of it,
\* has gone through the second call.
C18_Witness ==
    /\ phase = "cleaned2"
    /\ parserOutput # <<>>
    /\ parserOutput # parserInput
    /\ \E p \in 1..Len(parserInput) : parserInput[p] \in {"(", "<"}

\* The spans the claim keeps, and the text without the other spans: the
\* spans are found from left to right and cut out where they stand.
KeptSpan(m) == m \in {<<"(", "c", ")">>, <<"(", "C", ")">>}

RECURSIVE StripSpans(_, _)
StripSpans(t, p) ==
    IF p > Len(t) THEN <<>>
    ELSE IF BracketEnd(t, p) = 0 THEN <<t[p]>> \o StripSpans(t, p + 1)
    ELSE IF KeptSpan(SubSeq(t, p, BracketEnd(t, p)))
    THEN SubSeq(t, p, BracketEnd(t, p)) \o StripSpans(t, BracketEnd(t, p) + 1)
    ELSE StripSpans(t, BracketEnd(t, p) + 1)

NonWhitespace(t) == SelectSeq(t, LAMBDA x : ~IsWhitespace(x))

\* '(ccc) Copyright (C)', '  first  (c)    second   ' and
\* '<This should be removed>' give what the claim says they give.
OverheadExamples ==
    /\ removeOverheadFromCopyright(
           <<"(", "ccc", ")", " ", "Copyright", " ", "(", "C", ")">>)
         = <<"Copyright", " ", "(", "C", ")">>
    /\ removeOverheadFromCopyright(
           <<" ", " ", "first", " ", " ", "(", "c", ")", " ", " ", " ", " ", "second",
             " ", " ", " ">>)
         = <<"first", " ", "(", "c", ")", " ", "second">>
    /\ removeOverheadFromCopyright(
           <<"<", "This", " ", "should", " ", "be", " ", "removed", ">">>) = <<>>

\* C19: removeOverheadFromCopyright returns the text without its (...) and
\* <...> spans, the spans (c) and (C) kept as they are, with every run of two
\* or more whitespace characters turned into one space and no whitespace at
\* either end: nothing else is lost, no span but (c) or (C) is left, and the
\* three examples come out as stated.
C19_StripsSpansKeepsSymbol ==
    /\ phase = "cleaned" =>
           LET kept == StripSpans(parserInput, 1)
               left == BracketMatches(parserOutput, 1)
           IN  /\ parserOutput = Trim(CollapseWhitespace(kept, 1))
               /\ NonWhitespace(parserOutput) = NonWhitespace(kept)
               /\ \A k \in 1..Len(left) : KeptSpan(left[k])
               /\ \A p \in 1..(Len(parserOutput) - 1) :
                      ~(IsWhitespace(parserOutput[p]) /\ IsWhitespace(parserOutput[p + 1]))
               /\ parserOutput # <<>> =>
                      /\ ~IsWhitespace(parserOutput[1])
                      /\ ~IsWhitespace(parserOutput[Len(parserOutput)])
    /\ OverheadExamples

\* C19 witness: a text with the span (C) and a span to remove; (C) is what
\* is left.
C19_Witness ==
    /\ phase = "cleaned"
    /\ parserOutput = <<"(", "C", ")">>
    /\ Len(parserInput) = 5
    /\ parserInput[1] = "<"

\* The rules that match somewhere in text t.
MatchingRules(t) == { i \in 1..4 : RuleMatch(i, t) # <<>> }

\* C20: extractCopyright returns the match of the rule with the least number
\* among the rules that match somewhere in the text, whatever the later rules
\* match, and '' when no rule matches, the word copyright in the text or not.
C20_FirstRuleWins ==
    phase = "matched" =>
        /\ MatchingRules(parserInput) # {} =>
               parserOutput = RuleMatch(MinOf(MatchingRules(parserInput)), parserInput)
        /\ MatchingRules(parserInput) = {} => parserOutput = <<>>

\* C20 witness: a text that rule 1 and rule 4 match differently; the match
\* of rule 1 is returned.
C20_Witness ==
    /\ phase = "matched"
    /\ {1, 4} \subseteq MatchingRules(parserInput)
    /\ RuleMatch(1, parserInput) # RuleMatch(4, parserInput)
    /\ parserOutput = RuleMatch(1, parserInput)

\* 'Copyright (c) 2020 Jane Doe <jane@example.com>' gives
\* 'Copyright (c) 2020 Jane Doe'.
ParseExample ==
    parseCopyright(
        <<"Copyright", " ", "(", "c", ")", " ", "2020", " ", "Jane", " ", "Doe", " ",
          "<", "jane@example.com", ">">>)
      = <<"Copyright", " ", "(", "c", ")", " ", "2020", " ", "Jane", " ", "Doe">>

\* C21: parseCopyright returns what removeOverheadFromCopyright makes of the
\* notice extractCopyright finds in the text, and '' when it finds none; the
\* example comes out as stated.
C21_ParseIsExtractThenNormalize ==
    /\ phase = "parsed" =>
           LET found == extractCopyright(parserInput)
           IN  /\ found # <<>> => parserOutput = removeOverheadFromCopyright(found)
               /\ found = <<>> => parserOutput = <<>>
    /\ ParseExample

\* C21 witness: a text with a notice that the cleaning changes.
C21_Witness ==
    /\ phase = "parsed"
    /\ parserOutput # <<>>
    /\ parserOutput # extractCopyright(parserInput)

\* The steps of the exports.
ExportStep == phase \in {"combined", "exported"} /\ phase' \in {"exported", "pdf"}

Identity(p) == <<p.group, p.name, p.version>>

\* The records of list s are still in list t, at their indices, with the
\* identity they have in s.
KeepsIdentities(s, t) ==
    \A k \in 1..Len(s) : k <= Len(t) /\ Identity(t[k]) = Identity(s[k])

\* C23: no operation (checkExternalReferences, combine, exportJSON, exportPDF)
\* changes the group, name or version of a record, generated or local; a run
\* of combine changes nothing but the licenses and the copyright of the
\* generated records that exactly match a local record: every other generated
\* record, the length and order of the generated list and every field of
\* every local record are as before.
C23_IdentityImmutable ==
    [][/\ KeepsIdentities(packageInfos, packageInfos')
       /\ KeepsIdentities(localData, localData')
       /\ (phase = "ready" /\ phase' = "combined") =>
              /\ localData' = localData
              /\ Len(packageInfos') = Len(packageInfos)
              /\ \A j \in GeneratedIdx :
                     IF \E i \in LocalIdx : ExactMatch(i, j)
                     THEN packageInfos'[j] =
                              [packageInfos[j] EXCEPT
                                   !.licenses = packageInfos'[j].licenses,
                                   !.copyright = packageInfos'[j].copyright]
                     ELSE packageInfos'[j] = packageInfos[j]]_vars

\* combine has run on two generated records: one exactly matches the local
\* record and carries its licenses now, the other is out of its range and
\* still has its own.
C23_Witness ==
    /\ phase = "combined"
    /\ Len(packageInfos) = 2 /\ Len(localData) = 1
    /\ \E j, k \in GeneratedIdx :
           /\ <<1, j>> \in overwritten
           /\ packageInfos[j].licenses = LicenseMIT
           /\ VersionConflict(1, k)
           /\ packageInfos[k].licenses = LicenseISC

\* C24: when no request is left, the delay of the backoff is exactly
\* |reset * 1000 - now| + 10000 milliseconds, reset in seconds and now in
\* milliseconds since the epoch: the distance to the reset plus ten seconds,
\* whichever of the two comes first, and so never less than 10000 ms; the
\* call sleeps only when no request is left.
C24_BackoffDuration ==
    phase = "sleeping" =>
        /\ remaining < 1
        /\ reset * 1000 >= now => waitTime = (reset * 1000 - now) + 10000
        /\ reset * 1000 < now => waitTime = (now - reset * 1000) + 10000
        /\ waitTime >= 10000

\* C24 witness: the call sleeps although the reset lies in the past, for more
\* than ten seconds.
C24_Witness ==
    /\ phase = "sleeping"
    /\ reset * 1000 < now
    /\ waitTime > 10000

\* C25 as stated: after one run of combine each local record occurs at most
\* once in the appended list, also when several generated records have its
\* group and name with versions out of its range.
C25_AppendedAtMostOnce ==
    phase = "combined" =>
        \A i \in LocalIdx : Occurrences(toBeAppended, i) <= 1

\* The record at index i has a copyright to insert.
HasCopyright(i) == i <= Len(packageInfos) /\ packageInfos[i].copyright # <<>>

\* Component after is component before with the copyright entry set to
\* copyright and every other entry as it was.
OnlyCopyrightSet(before, after, copyright) ==
    /\ DOMAIN after = (DOMAIN before) \cup {"copyright"}
    /\ after.copyright = copyright
    /\ \A k \in (DOMAIN before) \ {"copyright"} : after[k] = before[k]

====
